---- MODULE Spec2Model ----
(***************************************************************************)
(* RWVec (src/RWVec.rs): a growable vector shared between threads, guarded *)
(* by a reader-writer "resize" lock (rw_lock) and a "push" mutex           *)
(* (push_lock), with three guard types: SliceGuard (read snapshot),        *)
(* SliceGuardMut (write snapshot) and VecGuardMut (exclusive view).        *)
(*                                                                         *)
(* Every lock call and every access to the vector is one atomic step of   *)
(* the calling thread; pc[t] is the thread's position inside the call it   *)
(* is executing.  A thread at "idle" is between calls, or has called       *)
(* push, reader or writer and waits for the first lock of that call: the   *)
(* call is counted when that lock is granted.                              *)
(*                                                                         *)
(* A thread holds at most one snapshot at a time, and with a write         *)
(* snapshot at most the VecGuardMut upgraded from it; it may call push     *)
(* while it holds them, and upgrade again while the VecGuardMut is alive   *)
(* (a lock() on the push mutex it already holds never returns).  Reads of  *)
(* vec.len() that race with a push see the length before or after the      *)
(* push's store.  Lock waits have no timeout: a waiting step is simply not  *)
(* enabled.                                                                *)
(***************************************************************************)
EXTENDS Integers, Sequences, FiniteSets, TLC

\* number of threads sharing the container
NThreads == 2
\* calls made at most, by all threads together: push, reader, writer, refresh,
\* upgrade, and writes through a guard
MaxOps == 6
\* largest argument of with_capacity
MaxCap0 == 1
\* largest argument of with_capacity in the runs of a single thread
MaxSeqCap0 == 4
\* largest number of elements pushed before a round trip through the guards
MaxRtLen == 3

Threads == 1..NThreads

\* the value a write through a guard stores (the "sentinel" of the test)
Sentinel == <<0, 0>>
\* the k-th value thread t pushes
PushVal(t, k) == <<t, k>>

VARIABLES
    rw_writer,   \* rw_lock is held exclusively
    rw_readers,  \* number of shared holds on rw_lock
    push_lock,   \* push_lock is held
    data,        \* the Vec's elements, data[1..len]
    cap,         \* the Vec's capacity
    buf,         \* identity of the Vec's allocation: changes at every relocation
    pc,          \* pc[t]: position of thread t
    guard,       \* guard[t]: "none", "r" (SliceGuard) or "w" (SliceGuardMut)
    vg,          \* vg[t]: thread t holds a VecGuardMut returned by upgrade()
    end,         \* end[t]: the end field of t's snapshot
    plen,        \* plen[t]: the length Vec::push read, between its write of the
                 \* element and its store of the new length
    npush,       \* npush[t]: push calls thread t has made
    nops,        \* calls made since the initial state
    edited,      \* history: some guard has written to the vector
    cap0,        \* history: the capacity the container was built with
    appended,    \* history: appended[t]: an append completed since t recorded end
    viewed,      \* history: viewed[t]: an exclusive view upgraded from t's write
                 \* snapshot has been dropped
    waiting      \* history: waiting[t]: the pushes that waited for the resize
                 \* lock when t called the refresh() or upgrade() it is in;
                 \* [u, k, pos, gone]: the k-th push of thread u, the index
                 \* it has written its element at (0: not yet), and whether
                 \* an exclusive view has since truncated the vector below it

vars == <<rw_writer, rw_readers, push_lock, data, cap, buf, pc, guard, vg, end, plen,
          npush, nops, edited, cap0, appended, viewed, waiting>>

lockVars == <<rw_writer, rw_readers, push_lock>>
vecVars == <<data, cap, buf>>
guardVars == <<guard, vg, end, plen>>
countVars == <<npush, nops, edited, cap0>>

Max(a, b) == IF a >= b THEN a ELSE b

\* RWVec::new() is with_capacity(0)
Init ==
    /\ rw_writer = FALSE
    /\ rw_readers = 0
    /\ push_lock = FALSE
    /\ data = <<>>
    /\ cap \in 0..MaxCap0
    /\ cap0 = cap
    /\ buf = 0
    /\ pc = [t \in Threads |-> "idle"]
    /\ guard = [t \in Threads |-> "none"]
    /\ vg = [t \in Threads |-> FALSE]
    /\ end = [t \in Threads |-> 0]
    /\ plen = [t \in Threads |-> 0]
    /\ npush = [t \in Threads |-> 0]
    /\ nops = 0
    /\ edited = FALSE
    /\ appended = [t \in Threads |-> FALSE]
    /\ viewed = [t \in Threads |-> FALSE]
    /\ waiting = [t \in Threads |-> {}]

\* Vec::push's growth when len = cap: cap = max(cap, 2) * 2
GrowCap(c) == Max(c, 2) * 2

\* Vec::push, first half: reallocate (new capacity, new allocation) when
\* len = cap, then write the element into the slot after the last one
VecReserve ==
    IF Len(data) = cap
      THEN cap' = GrowCap(cap) /\ buf' = buf + 1
      ELSE UNCHANGED <<cap, buf>>

\* Vec::push, second half: len = l + 1, where l is the length the first half
\* read; the slots below l keep what they hold
VecSetLen(l, v) ==
    data' = [i \in 1..(l + 1) |->
                IF i = l + 1 THEN v ELSE IF i <= Len(data) THEN data[i] ELSE Sentinel]

\* Vec::push(v) by a thread that nothing interleaves with
VecPush(v) ==
    /\ VecReserve
    /\ VecSetLen(Len(data), v)

\* history of appends: every live snapshot has seen an append since it recorded end
NoteAppend == appended' = [t \in Threads |-> guard[t] # "none"]

Goto(t, l) == pc' = [pc EXCEPT ![t] = l]

\* history: the pushes that wait for rw_lock.write() as thread t calls
\* refresh() or upgrade()
NoteWaiting(t) ==
    waiting' = [waiting EXCEPT ![t] =
                   {[u |-> u, k |-> npush[u], pos |-> 0, gone |-> FALSE] :
                       u \in {x \in Threads \ {t} : pc[x] = "p_wlock"}}]

\* history: the call of thread t returns
ForgetWaiting(t) == waiting' = [waiting EXCEPT ![t] = {}]

\* history: the push of thread u stores its element at index p
NoteWritten(u, p) ==
    waiting' = [t \in Threads |->
                   {IF e.u = u /\ e.k = npush[u] THEN [e EXCEPT !.pos = p] ELSE e :
                       e \in waiting[t]}]

\* history: the vector is truncated to n elements
NoteTruncated(n) ==
    waiting' = [t \in Threads |->
                   {IF e.pos > n THEN [e EXCEPT !.gone = TRUE] ELSE e : e \in waiting[t]}]

(***************************************************************************)
(* The locks a thread holds, read off its position in the code.            *)
(***************************************************************************)
HoldsPush(t) ==
    \/ pc[t] \in {"p_test", "p_fast", "p_flen", "p_wlock", "p_realloc", "p_rlen",
                  "p_wunlock", "p_unlock", "rf_relock", "rf_len", "rf_punlock",
                  "up_wlock"}
    \/ vg[t]

HoldsWrite(t) ==
    \/ pc[t] \in {"p_realloc", "p_rlen", "p_wunlock", "w_len"}
    \/ guard[t] = "w" /\ pc[t] \notin {"rf_plock", "rf_relock", "up_plock", "up_wlock"}

HoldsRead(t) ==
    \/ pc[t] = "r_len"
    \/ guard[t] = "r" /\ pc[t] \notin {"rf_plock", "rf_relock"}

(***************************************************************************)
(* RWVec::push                                                             *)
(***************************************************************************)
\* push going on without waiting for push_lock
PushLockNoWait(t) ==
    /\ pc[t] = "idle"
    /\ nops < MaxOps
    /\ nops' = nops + 1
    /\ npush' = [npush EXCEPT ![t] = @ + 1]
    /\ push_lock' = TRUE
    /\ Goto(t, "p_test")
    /\ UNCHANGED <<rw_writer, rw_readers, vecVars, guardVars, edited, cap0, appended, viewed, waiting>>

\* line 46: push(t) is called and its push_lock.lock() returns
PushLock(t) ==
    /\ pc[t] = "idle"
    /\ nops < MaxOps
    /\ nops' = nops + 1
    /\ npush' = [npush EXCEPT ![t] = @ + 1]
    /\ ~push_lock
    /\ push_lock' = TRUE
    /\ Goto(t, "p_test")
    /\ UNCHANGED <<rw_writer, rw_readers, vecVars, guardVars, edited, cap0, appended, viewed, waiting>>

\* push taking the reallocating branch whatever the capacity
PushTestAlwaysResize(t) ==
    /\ pc[t] = "p_test"
    /\ Goto(t, "p_wlock")
    /\ UNCHANGED <<lockVars, vecVars, guardVars, countVars, appended, viewed, waiting>>

\* line 49: capacity() == len()
PushTest(t) ==
    /\ pc[t] = "p_test"
    /\ Goto(t, IF cap = Len(data) THEN "p_wlock" ELSE "p_fast")
    /\ UNCHANGED <<lockVars, vecVars, guardVars, countVars, appended, viewed, waiting>>

\* the reallocating push passing the resize lock its own thread holds
PushWLockReentrant(t) ==
    /\ pc[t] = "p_wlock"
    /\ rw_writer => guard[t] = "w"
    /\ rw_readers = IF guard[t] = "r" THEN 1 ELSE 0
    /\ rw_writer' = TRUE
    /\ Goto(t, "p_realloc")
    /\ UNCHANGED <<rw_readers, push_lock, vecVars, guardVars, countVars, appended, viewed, waiting>>

\* the reallocating push waiting for writers only, not for readers
PushWLockIgnoringReaders(t) ==
    /\ pc[t] = "p_wlock"
    /\ ~rw_writer
    /\ rw_writer' = TRUE
    /\ Goto(t, "p_realloc")
    /\ UNCHANGED <<rw_readers, push_lock, vecVars, guardVars, countVars, appended, viewed, waiting>>

\* line 51: rw_lock.write()
PushWLock(t) ==
    /\ pc[t] = "p_wlock"
    /\ ~rw_writer /\ rw_readers = 0
    /\ rw_writer' = TRUE
    /\ Goto(t, "p_realloc")
    /\ UNCHANGED <<rw_readers, push_lock, vecVars, guardVars, countVars, appended, viewed, waiting>>

\* line 53: the push that reallocates: grow, copy, write the element
PushRealloc(t) ==
    /\ pc[t] = "p_realloc"
    /\ VecReserve
    /\ plen' = [plen EXCEPT ![t] = Len(data)]
    /\ Goto(t, "p_rlen")
    /\ UNCHANGED <<lockVars, data, guard, vg, end, countVars, appended, viewed, waiting>>

\* line 53: the push stores the new length
PushReallocLen(t) ==
    /\ pc[t] = "p_rlen"
    /\ VecSetLen(plen[t], PushVal(t, npush[t]))
    /\ plen' = [plen EXCEPT ![t] = 0]
    /\ NoteAppend
    /\ Goto(t, "p_wunlock")
    /\ NoteWritten(t, plen[t] + 1)
    /\ UNCHANGED <<lockVars, cap, buf, guard, vg, end, countVars, viewed>>

\* line 57: rw_lock.write_unlock()
PushWUnlock(t) ==
    /\ pc[t] = "p_wunlock"
    /\ rw_writer' = FALSE
    /\ Goto(t, "p_unlock")
    /\ UNCHANGED <<rw_readers, push_lock, vecVars, guardVars, countVars, appended, viewed, waiting>>

\* line 66: the push "that doesnt affect reads": write the element
PushFast(t) ==
    /\ pc[t] = "p_fast"
    /\ VecReserve
    /\ plen' = [plen EXCEPT ![t] = Len(data)]
    /\ Goto(t, "p_flen")
    /\ UNCHANGED <<lockVars, data, guard, vg, end, countVars, appended, viewed, waiting>>

\* line 66: the push stores the new length
PushFastLen(t) ==
    /\ pc[t] = "p_flen"
    /\ VecSetLen(plen[t], PushVal(t, npush[t]))
    /\ plen' = [plen EXCEPT ![t] = 0]
    /\ NoteAppend
    /\ Goto(t, "p_unlock")
    /\ UNCHANGED <<lockVars, cap, buf, guard, vg, end, countVars, viewed, waiting>>

\* lines 59 and 68: push_lock.unlock(), and push returns
PushUnlock(t) ==
    /\ pc[t] = "p_unlock"
    /\ push_lock' = FALSE
    /\ Goto(t, "idle")
    /\ UNCHANGED <<rw_writer, rw_readers, vecVars, guardVars, countVars, appended, viewed, waiting>>

(***************************************************************************)
(* RWVec::reader, SliceGuard                                               *)
(***************************************************************************)
\* reader() waiting for the push lock to be free as well
ReaderLockWaitsForPush(t) ==
    /\ pc[t] = "idle"
    /\ guard[t] = "none"
    /\ nops < MaxOps
    /\ nops' = nops + 1
    /\ ~rw_writer /\ ~push_lock
    /\ rw_readers' = rw_readers + 1
    /\ Goto(t, "r_len")
    /\ UNCHANGED <<rw_writer, push_lock, vecVars, guardVars, npush, edited, cap0, appended, viewed, waiting>>

\* line 112: reader() is called and its resize_lock.read() returns
ReaderLock(t) ==
    /\ pc[t] = "idle"
    /\ guard[t] = "none"
    /\ nops < MaxOps
    /\ nops' = nops + 1
    /\ ~rw_writer
    /\ rw_readers' = rw_readers + 1
    /\ Goto(t, "r_len")
    /\ UNCHANGED <<rw_writer, push_lock, vecVars, guardVars, npush, edited, cap0, appended, viewed, waiting>>

\* line 116: end = vec.len(), and reader() returns the SliceGuard
ReaderLen(t) ==
    /\ pc[t] = "r_len"
    /\ end' = [end EXCEPT ![t] = Len(data)]
    /\ guard' = [guard EXCEPT ![t] = "r"]
    /\ appended' = [appended EXCEPT ![t] = FALSE]
    /\ Goto(t, "idle")
    /\ UNCHANGED <<lockVars, vecVars, vg, countVars, plen, viewed, waiting>>

\* SliceGuard::refresh going for the push lock without its read_unlock()
RefreshRUnlockSkipped(t) ==
    /\ pc[t] = "idle"
    /\ guard[t] = "r"
    /\ nops < MaxOps
    /\ nops' = nops + 1
    /\ Goto(t, "rf_plock")
    /\ NoteWaiting(t)
    /\ UNCHANGED <<lockVars, vecVars, guardVars, npush, edited, cap0, appended, viewed>>

\* line 126: SliceGuard::refresh, resize_lock.read_unlock()
RefreshRUnlock(t) ==
    /\ pc[t] = "idle"
    /\ guard[t] = "r"
    /\ rw_readers' = rw_readers - 1
    /\ nops < MaxOps
    /\ nops' = nops + 1
    /\ Goto(t, "rf_plock")
    /\ NoteWaiting(t)
    /\ UNCHANGED <<rw_writer, push_lock, vecVars, guardVars, npush, edited, cap0, appended, viewed>>

\* SliceGuard::refresh going on without waiting for push_lock
RefreshPushLockNoWait(t) ==
    /\ pc[t] = "rf_plock"
    /\ guard[t] = "r"
    /\ push_lock' = TRUE
    /\ Goto(t, "rf_relock")
    /\ UNCHANGED <<rw_writer, rw_readers, vecVars, guardVars, countVars, appended, viewed, waiting>>

\* line 128: push_lock.lock()
RefreshPushLock(t) ==
    /\ pc[t] = "rf_plock"
    /\ guard[t] = "r"
    /\ ~push_lock
    /\ push_lock' = TRUE
    /\ Goto(t, "rf_relock")
    /\ UNCHANGED <<rw_writer, rw_readers, vecVars, guardVars, countVars, appended, viewed, waiting>>

\* SliceGuard::refresh going on without its resize_lock.read()
RefreshRLockSkipped(t) ==
    /\ pc[t] = "rf_relock"
    /\ guard[t] = "r"
    /\ Goto(t, "rf_len")
    /\ UNCHANGED <<lockVars, vecVars, guardVars, countVars, appended, viewed, waiting>>

\* line 130: resize_lock.read()
RefreshRLock(t) ==
    /\ pc[t] = "rf_relock"
    /\ guard[t] = "r"
    /\ ~rw_writer
    /\ rw_readers' = rw_readers + 1
    /\ Goto(t, "rf_len")
    /\ UNCHANGED <<rw_writer, push_lock, vecVars, guardVars, countVars, appended, viewed, waiting>>

\* SliceGuard::refresh leaving end as it is
RefreshLenKeepsEnd(t) ==
    /\ pc[t] = "rf_len"
    /\ guard[t] = "r"
    /\ appended' = [appended EXCEPT ![t] = FALSE]
    /\ Goto(t, "rf_punlock")
    /\ UNCHANGED <<lockVars, vecVars, guardVars, countVars, viewed, waiting>>

\* line 133: end = vec.len()
RefreshLen(t) ==
    /\ pc[t] = "rf_len"
    /\ guard[t] = "r"
    /\ end' = [end EXCEPT ![t] = Len(data)]
    /\ appended' = [appended EXCEPT ![t] = FALSE]
    /\ Goto(t, "rf_punlock")
    /\ UNCHANGED <<lockVars, vecVars, guard, vg, countVars, plen, viewed, waiting>>

\* line 137: push_lock.unlock(), and refresh returns
RefreshPushUnlock(t) ==
    /\ pc[t] = "rf_punlock"
    /\ guard[t] = "r"
    /\ push_lock' = FALSE
    /\ Goto(t, "idle")
    /\ ForgetWaiting(t)
    /\ UNCHANGED <<rw_writer, rw_readers, vecVars, guardVars, countVars, appended, viewed>>

\* line 162: drop of the SliceGuard
DropReader(t) ==
    /\ pc[t] = "idle"
    /\ guard[t] = "r"
    /\ rw_readers' = rw_readers - 1
    /\ guard' = [guard EXCEPT ![t] = "none"]
    /\ end' = [end EXCEPT ![t] = 0]
    /\ appended' = [appended EXCEPT ![t] = FALSE]
    /\ UNCHANGED <<rw_writer, push_lock, vecVars, pc, vg, countVars, plen, viewed, waiting>>

(***************************************************************************)
(* RWVec::writer, SliceGuardMut                                            *)
(***************************************************************************)
\* SliceGuardMut::new taking the resize lock in read mode
WriterLockAsRead(t) ==
    /\ pc[t] = "idle"
    /\ guard[t] = "none"
    /\ nops < MaxOps
    /\ nops' = nops + 1
    /\ ~rw_writer
    /\ rw_readers' = rw_readers + 1
    /\ Goto(t, "w_len")
    /\ UNCHANGED <<rw_writer, push_lock, vecVars, guardVars, npush, edited, cap0, appended, viewed, waiting>>

\* line 188: writer() is called and its resize_lock.write() returns
WriterLock(t) ==
    /\ pc[t] = "idle"
    /\ guard[t] = "none"
    /\ nops < MaxOps
    /\ nops' = nops + 1
    /\ ~rw_writer /\ rw_readers = 0
    /\ rw_writer' = TRUE
    /\ Goto(t, "w_len")
    /\ UNCHANGED <<rw_readers, push_lock, vecVars, guardVars, npush, edited, cap0, appended, viewed, waiting>>

\* line 194: end = vec.len(), and writer() returns the SliceGuardMut
WriterLen(t) ==
    /\ pc[t] = "w_len"
    /\ end' = [end EXCEPT ![t] = Len(data)]
    /\ guard' = [guard EXCEPT ![t] = "w"]
    /\ appended' = [appended EXCEPT ![t] = FALSE]
    /\ Goto(t, "idle")
    /\ UNCHANGED <<lockVars, vecVars, vg, countVars, plen, viewed, waiting>>

\* line 268: a write to self.vec[..self.end][i] (the slicing panics when
\* end > len, and refresh and deref_mut borrow the guard mutably, which a
\* live VecGuardMut forbids)
WriterSet(t, i) ==
    /\ pc[t] = "idle"
    /\ guard[t] = "w" /\ ~vg[t]
    /\ end[t] <= Len(data)
    /\ i \in 1..end[t]
    /\ nops < MaxOps
    /\ nops' = nops + 1
    /\ edited' = TRUE
    /\ data' = [data EXCEPT ![i] = Sentinel]
    /\ UNCHANGED <<lockVars, cap, buf, pc, guardVars, npush, cap0, appended, viewed, waiting>>

\* SliceGuardMut::refresh going for the push lock without its write_unlock()
MutRefreshWUnlockSkipped(t) ==
    /\ pc[t] = "idle"
    /\ guard[t] = "w" /\ ~vg[t]
    /\ nops < MaxOps
    /\ nops' = nops + 1
    /\ Goto(t, "rf_plock")
    /\ NoteWaiting(t)
    /\ UNCHANGED <<lockVars, vecVars, guardVars, npush, edited, cap0, appended, viewed>>

\* line 206: SliceGuardMut::refresh, resize_lock.write_unlock()
MutRefreshWUnlock(t) ==
    /\ pc[t] = "idle"
    /\ guard[t] = "w" /\ ~vg[t]
    /\ rw_writer' = FALSE
    /\ nops < MaxOps
    /\ nops' = nops + 1
    /\ Goto(t, "rf_plock")
    /\ NoteWaiting(t)
    /\ UNCHANGED <<rw_readers, push_lock, vecVars, guardVars, npush, edited, cap0, appended, viewed>>

\* SliceGuardMut::refresh going on without waiting for push_lock
MutRefreshPushLockNoWait(t) ==
    /\ pc[t] = "rf_plock"
    /\ guard[t] = "w"
    /\ push_lock' = TRUE
    /\ Goto(t, "rf_relock")
    /\ UNCHANGED <<rw_writer, rw_readers, vecVars, guardVars, countVars, appended, viewed, waiting>>

\* line 209: push_lock.lock()
MutRefreshPushLock(t) ==
    /\ pc[t] = "rf_plock"
    /\ guard[t] = "w"
    /\ ~push_lock
    /\ push_lock' = TRUE
    /\ Goto(t, "rf_relock")
    /\ UNCHANGED <<rw_writer, rw_readers, vecVars, guardVars, countVars, appended, viewed, waiting>>

\* line 212: resize_lock.write()
MutRefreshWLock(t) ==
    /\ pc[t] = "rf_relock"
    /\ guard[t] = "w"
    /\ ~rw_writer /\ rw_readers = 0
    /\ rw_writer' = TRUE
    /\ Goto(t, "rf_len")
    /\ UNCHANGED <<rw_readers, push_lock, vecVars, guardVars, countVars, appended, viewed, waiting>>

\* line 215: end = vec.len()
MutRefreshLen(t) ==
    /\ pc[t] = "rf_len"
    /\ guard[t] = "w"
    /\ end' = [end EXCEPT ![t] = Len(data)]
    /\ appended' = [appended EXCEPT ![t] = FALSE]
    /\ Goto(t, "rf_punlock")
    /\ UNCHANGED <<lockVars, vecVars, guard, vg, countVars, plen, viewed, waiting>>

\* line 219: push_lock.unlock(), and refresh returns
MutRefreshPushUnlock(t) ==
    /\ pc[t] = "rf_punlock"
    /\ guard[t] = "w"
    /\ push_lock' = FALSE
    /\ Goto(t, "idle")
    /\ ForgetWaiting(t)
    /\ UNCHANGED <<rw_writer, rw_readers, vecVars, guardVars, countVars, appended, viewed>>

\* line 229: SliceGuardMut::upgrade(&self), resize_lock.write_unlock().
\* upgrade borrows the guard immutably, so it can be called again while
\* the VecGuardMut of an earlier upgrade is alive.
UpgradeWUnlock(t) ==
    /\ pc[t] = "idle"
    /\ guard[t] = "w"
    /\ rw_writer' = FALSE
    /\ nops < MaxOps
    /\ nops' = nops + 1
    /\ Goto(t, "up_plock")
    /\ NoteWaiting(t)
    /\ UNCHANGED <<rw_readers, push_lock, vecVars, guardVars, npush, edited, cap0, appended, viewed>>

\* VecGuardMut::new going on without waiting for push_lock
UpgradePushLockNoWait(t) ==
    /\ pc[t] = "up_plock"
    /\ push_lock' = TRUE
    /\ Goto(t, "up_wlock")
    /\ UNCHANGED <<rw_writer, rw_readers, vecVars, guardVars, countVars, appended, viewed, waiting>>

\* lines 231 and 290: VecGuardMut::new, push_lock.lock()
UpgradePushLock(t) ==
    /\ pc[t] = "up_plock"
    /\ ~push_lock
    /\ push_lock' = TRUE
    /\ Goto(t, "up_wlock")
    /\ UNCHANGED <<rw_writer, rw_readers, vecVars, guardVars, countVars, appended, viewed, waiting>>

\* upgrade returning without waiting for the holders of the resize lock
UpgradeWLockNoWait(t) ==
    /\ pc[t] = "up_wlock"
    /\ rw_writer' = TRUE
    /\ vg' = [vg EXCEPT ![t] = TRUE]
    /\ Goto(t, "idle")
    /\ ForgetWaiting(t)
    /\ UNCHANGED <<rw_readers, push_lock, vecVars, guard, end, countVars, appended, plen, viewed>>

\* line 233: resize_lock.write(), and upgrade returns the VecGuardMut
UpgradeWLock(t) ==
    /\ pc[t] = "up_wlock"
    /\ ~rw_writer /\ rw_readers = 0
    /\ rw_writer' = TRUE
    /\ vg' = [vg EXCEPT ![t] = TRUE]
    /\ Goto(t, "idle")
    /\ ForgetWaiting(t)
    /\ UNCHANGED <<rw_readers, push_lock, vecVars, guard, end, countVars, appended, plen, viewed>>

\* line 275: drop of the SliceGuardMut (the VecGuardMut borrows it, so it
\* is dropped first)
DropWriter(t) ==
    /\ pc[t] = "idle"
    /\ guard[t] = "w" /\ ~vg[t]
    /\ rw_writer' = FALSE
    /\ guard' = [guard EXCEPT ![t] = "none"]
    /\ end' = [end EXCEPT ![t] = 0]
    /\ appended' = [appended EXCEPT ![t] = FALSE]
    /\ viewed' = [viewed EXCEPT ![t] = FALSE]
    /\ UNCHANGED <<rw_readers, push_lock, vecVars, pc, vg, countVars, plen, waiting>>

(***************************************************************************)
(* VecGuardMut: deref_mut hands out the whole Vec                          *)
(***************************************************************************)
\* Vec::push through the exclusive view writing the element without
\* storing the new length
VgPushNoLen(t) ==
    /\ pc[t] = "idle"
    /\ vg[t]
    /\ nops < MaxOps
    /\ nops' = nops + 1
    /\ edited' = TRUE
    /\ VecReserve
    /\ NoteAppend
    /\ UNCHANGED <<lockVars, data, pc, guardVars, npush, cap0, viewed, waiting>>

\* line 328: Vec::push through the exclusive view
VgPush(t) ==
    /\ pc[t] = "idle"
    /\ vg[t]
    /\ nops < MaxOps
    /\ nops' = nops + 1
    /\ edited' = TRUE
    /\ VecPush(Sentinel)
    /\ NoteAppend
    /\ UNCHANGED <<lockVars, pc, guardVars, npush, cap0, viewed, waiting>>

\* line 328: Vec::truncate(n) through the exclusive view
VgTruncate(t, n) ==
    /\ pc[t] = "idle"
    /\ vg[t]
    /\ n \in 0..(Len(data) - 1)
    /\ nops < MaxOps
    /\ nops' = nops + 1
    /\ edited' = TRUE
    /\ data' = SubSeq(data, 1, n)
    /\ NoteTruncated(n)
    /\ UNCHANGED <<lockVars, cap, buf, pc, guardVars, npush, cap0, appended, viewed>>

\* line 328: a write to an element through the exclusive view
VgSet(t, i) ==
    /\ pc[t] = "idle"
    /\ vg[t]
    /\ i \in 1..Len(data)
    /\ nops < MaxOps
    /\ nops' = nops + 1
    /\ edited' = TRUE
    /\ data' = [data EXCEPT ![i] = Sentinel]
    /\ UNCHANGED <<lockVars, cap, buf, pc, guardVars, npush, cap0, appended, viewed, waiting>>

\* the drop of the VecGuardMut releasing the resize lock too
DropVecGuardReleasingBoth(t) ==
    /\ pc[t] = "idle"
    /\ vg[t]
    /\ push_lock' = FALSE
    /\ rw_writer' = FALSE
    /\ vg' = [vg EXCEPT ![t] = FALSE]
    /\ viewed' = [viewed EXCEPT ![t] = TRUE]
    /\ UNCHANGED <<rw_readers, vecVars, pc, guard, end, countVars, appended, plen, waiting>>

\* line 335: drop of the VecGuardMut
DropVecGuard(t) ==
    /\ pc[t] = "idle"
    /\ vg[t]
    /\ push_lock' = FALSE
    /\ vg' = [vg EXCEPT ![t] = FALSE]
    /\ viewed' = [viewed EXCEPT ![t] = TRUE]
    /\ UNCHANGED <<rw_writer, rw_readers, vecVars, pc, guard, end, countVars, appended, plen, waiting>>

Next ==
    \E t \in Threads :
        \/ PushLock(t) \/ PushTest(t) \/ PushWLock(t)
        \/ PushRealloc(t) \/ PushReallocLen(t) \/ PushWUnlock(t)
        \/ PushFast(t) \/ PushFastLen(t) \/ PushUnlock(t)
        \/ ReaderLock(t) \/ ReaderLen(t)
        \/ RefreshRUnlock(t) \/ RefreshPushLock(t) \/ RefreshRLock(t)
        \/ RefreshLen(t) \/ RefreshPushUnlock(t) \/ DropReader(t)
        \/ WriterLock(t) \/ WriterLen(t)
        \/ (\E i \in 1..Len(data) : WriterSet(t, i))
        \/ MutRefreshWUnlock(t) \/ MutRefreshPushLock(t) \/ MutRefreshWLock(t)
        \/ MutRefreshLen(t) \/ MutRefreshPushUnlock(t)
        \/ UpgradeWUnlock(t) \/ UpgradePushLock(t) \/ UpgradeWLock(t)
        \/ DropWriter(t)
        \/ VgPush(t)
        \/ (\E n \in 0..Len(data) : VgTruncate(t, n))
        \/ (\E i \in 1..Len(data) : VgSet(t, i))
        \/ DropVecGuard(t)

Spec == Init /\ [][Next]_vars

(***************************************************************************)
(* Threads that keep to the rules: no push while a snapshot is held, one   *)
(* exclusive view at a time, every guard dropped; each thread goes on as   *)
(* long as it has a step to take.                                          *)
(***************************************************************************)
DiscStep(t) ==
    \/ guard[t] = "none" /\ PushLock(t)
    \/ PushTest(t) \/ PushWLock(t)
    \/ PushRealloc(t) \/ PushReallocLen(t) \/ PushWUnlock(t)
    \/ PushFast(t) \/ PushFastLen(t) \/ PushUnlock(t)
    \/ ReaderLock(t) \/ ReaderLen(t)
    \/ RefreshRUnlock(t) \/ RefreshPushLock(t) \/ RefreshRLock(t)
    \/ RefreshLen(t) \/ RefreshPushUnlock(t) \/ DropReader(t)
    \/ WriterLock(t) \/ WriterLen(t)
    \/ (\E i \in 1..Len(data) : WriterSet(t, i))
    \/ MutRefreshWUnlock(t) \/ MutRefreshPushLock(t) \/ MutRefreshWLock(t)
    \/ MutRefreshLen(t) \/ MutRefreshPushUnlock(t)
    \/ ~vg[t] /\ UpgradeWUnlock(t)
    \/ UpgradePushLock(t) \/ UpgradeWLock(t)
    \/ DropWriter(t)
    \/ VgPush(t)
    \/ (\E n \in 0..Len(data) : VgTruncate(t, n))
    \/ (\E i \in 1..Len(data) : VgSet(t, i))
    \/ DropVecGuard(t)

DiscNext == \E t \in Threads : DiscStep(t)

DiscFair == \A t \in Threads : WF_vars(DiscStep(t))

DiscSpec == Init /\ [][DiscNext]_vars /\ DiscFair

(***************************************************************************)
(* Runs in which a single thread makes every call                          *)
(***************************************************************************)
\* with_capacity(n) for n up to MaxSeqCap0
SeqInit ==
    /\ rw_writer = FALSE
    /\ rw_readers = 0
    /\ push_lock = FALSE
    /\ data = <<>>
    /\ cap \in 0..MaxSeqCap0
    /\ cap0 = cap
    /\ buf = 0
    /\ pc = [t \in Threads |-> "idle"]
    /\ guard = [t \in Threads |-> "none"]
    /\ vg = [t \in Threads |-> FALSE]
    /\ end = [t \in Threads |-> 0]
    /\ plen = [t \in Threads |-> 0]
    /\ npush = [t \in Threads |-> 0]
    /\ nops = 0
    /\ edited = FALSE
    /\ appended = [t \in Threads |-> FALSE]
    /\ viewed = [t \in Threads |-> FALSE]
    /\ waiting = [t \in Threads |-> {}]

SeqNext ==
    \/ PushLock(1) \/ PushTest(1) \/ PushWLock(1)
    \/ PushRealloc(1) \/ PushReallocLen(1) \/ PushWUnlock(1)
    \/ PushFast(1) \/ PushFastLen(1) \/ PushUnlock(1)
    \/ ReaderLock(1) \/ ReaderLen(1)
    \/ RefreshRUnlock(1) \/ RefreshPushLock(1) \/ RefreshRLock(1)
    \/ RefreshLen(1) \/ RefreshPushUnlock(1) \/ DropReader(1)
    \/ WriterLock(1) \/ WriterLen(1)
    \/ (\E i \in 1..Len(data) : WriterSet(1, i))
    \/ MutRefreshWUnlock(1) \/ MutRefreshPushLock(1) \/ MutRefreshWLock(1)
    \/ MutRefreshLen(1) \/ MutRefreshPushUnlock(1)
    \/ UpgradeWUnlock(1) \/ UpgradePushLock(1) \/ UpgradeWLock(1)
    \/ DropWriter(1)
    \/ VgPush(1)
    \/ (\E n \in 0..Len(data) : VgTruncate(1, n))
    \/ (\E i \in 1..Len(data) : VgSet(1, i))
    \/ DropVecGuard(1)

SeqSpec == SeqInit /\ [][SeqNext]_vars

(***************************************************************************)
(* Lock discipline                                                         *)
(***************************************************************************)
WriteHolders == {t \in Threads : HoldsWrite(t)}
ReadHolders == {t \in Threads : HoldsRead(t)}
PushHolders == {t \in Threads : HoldsPush(t)}

\* C1: at most one thread holds the resize lock exclusively, threads hold it
\* shared only while none holds it exclusively, and at most one thread holds
\* the push lock.
C1_LockExclusion ==
    /\ Cardinality(WriteHolders) <= 1
    /\ WriteHolders # {} => ReadHolders = {}
    /\ Cardinality(PushHolders) <= 1

\* two read snapshots share the resize lock
C1_Witness ==
    \E t, u \in Threads : t # u /\ guard[t] = "r" /\ guard[u] = "r" /\ {t, u} \subseteq ReadHolders

(***************************************************************************)
(* Read snapshots                                                          *)
(***************************************************************************)
\* thread t holds a read snapshot that has recorded end and is not being refreshed
StableReader(t) == guard[t] = "r" /\ pc[t] \notin {"rf_plock", "rf_relock", "rf_len"}

\* C2: while a read snapshot has recorded end and is neither dropped nor in
\* its next refresh, no step changes an element below end or relocates the
\* buffer.
C2_ViewStable ==
    [][\A t \in Threads :
          (StableReader(t) /\ StableReader(t)') =>
              /\ buf' = buf
              /\ end'[t] = end[t]
              /\ \A i \in 1..end[t] :
                    i <= Len(data) /\ i <= Len(data') /\ data'[i] = data[i]]_vars

\* a read snapshot of a non-empty view is held while a later append completed
C2_Witness ==
    \E t \in Threads : StableReader(t) /\ end[t] >= 1 /\ appended[t] /\ Len(data) > end[t]

\* C3: the end of every snapshot is at most the length of the vector.
C3_EndWithinLen ==
    \A t \in Threads : guard[t] # "none" => end[t] <= Len(data)

\* thread t takes the step of refresh() that stores end
RefreshStoresEnd(t) == pc[t] = "rf_len" /\ pc'[t] = "rf_punlock"

\* C4: the end a refresh() stores is at least the end before it, and is the
\* length of the vector at that instant.
C4_RefreshMonotone ==
    [][\A t \in Threads :
          RefreshStoresEnd(t) => end'[t] >= end[t] /\ end'[t] = Len(data')]_vars

\* C5: a refresh() of a snapshot since whose last record of end no append
\* completed stores the same end.
C5_RefreshIdempotent ==
    [][\A t \in Threads :
          (RefreshStoresEnd(t) /\ ~appended[t]) => end'[t] = end[t]]_vars

\* the k-th push of thread u has stored its length
PushWritten(u, k) ==
    \/ k < npush[u]
    \/ k = npush[u] /\ pc[u] \notin {"p_test", "p_fast", "p_flen", "p_wlock", "p_realloc", "p_rlen"}

\* First sentence of C6, while no guard has written to the vector: a snapshot
\* that recorded end after the last append holds every value pushed so far.
C6_ReturnedPushVisible ==
    \A t \in Threads :
        (guard[t] # "none" /\ ~appended[t] /\ ~edited
           /\ pc[t] \notin {"rf_plock", "rf_relock", "rf_len"}) =>
            \A u \in Threads : \A k \in 1..npush[u] :
                PushWritten(u, k) =>
                    \E i \in 1..end[t] : i <= Len(data) /\ data[i] = PushVal(u, k)

\* C6: an element appended after a snapshot recorded end lies outside that
\* snapshot's view [0, end) as long as the snapshot is not refreshed.
C6_AppendOutsideViews ==
    [][Len(data') = Len(data) + 1 =>
          \A t \in Threads : guard[t] # "none" => Len(data') > end[t]]_vars

(***************************************************************************)
(* Appends                                                                 *)
(***************************************************************************)
PushPcs == {"p_test", "p_fast", "p_flen", "p_wlock", "p_realloc", "p_rlen",
            "p_wunlock", "p_unlock"}

AllPushesReturned == \A t \in Threads : pc[t] \notin PushPcs

RECURSIVE SumPushes(_)
SumPushes(S) ==
    IF S = {} THEN 0
    ELSE LET t == CHOOSE u \in S : TRUE IN npush[t] + SumPushes(S \ {t})

Positions(v) == {i \in 1..Len(data) : data[i] = v}

\* C7: when every push has returned and no guard has written to the vector,
\* the length is the number of push calls, every pushed value is at exactly
\* one index, and the values of one thread are in the order of its calls.
C7_NoLostAppends ==
    (AllPushesReturned /\ ~edited) =>
        /\ Len(data) = SumPushes(Threads)
        /\ \A t \in Threads : \A k \in 1..npush[t] :
              Cardinality(Positions(PushVal(t, k))) = 1
        /\ \A i, j \in 1..Len(data) :
              (i < j /\ data[i][1] = data[j][1]) => data[i][2] < data[j][2]

\* two threads have each pushed twice, with a reallocation and a snapshot taken
C7_Witness ==
    /\ AllPushesReturned /\ ~edited
    /\ \E t, u \in Threads : t # u /\ npush[t] >= 2 /\ npush[u] >= 2
    /\ buf >= 1
    /\ nops > SumPushes(Threads)

\* a step of the branch of push that found len < cap
FastPushStep(t) == pc[t] \in {"p_fast", "p_flen"} /\ pc'[t] # pc[t]

C9_CapacityUnderLocks ==
    /\ [](/\ Len(data) <= cap
          /\ \A t \in Threads :
                /\ pc[t] = "p_fast" => Len(data) < cap
                /\ pc[t] \in {"p_wlock", "p_realloc"} => Len(data) = cap)
    /\ [][cap' # cap =>
            \E t \in Threads :
                /\ HoldsWrite(t) /\ HoldsPush(t)
                /\ \/ pc[t] = "p_realloc" /\ pc'[t] = "p_rlen"
                   \/ pc[t] = "idle" /\ vg[t] /\ pc' = pc]_vars

\* a push that found the vector full has reallocated it, holding both locks
C9_Witness ==
    \E t \in Threads :
        /\ pc[t] = "p_rlen" /\ plen[t] = cap0 /\ cap0 >= 1
        /\ buf = 1 /\ cap = GrowCap(cap0)
        /\ rw_writer /\ push_lock

\* the snapshot of thread t holds the resize lock
GuardHoldsResize(t) == guard[t] # "none" /\ (HoldsRead(t) \/ HoldsWrite(t))

\* C10 as stated: the buffer is relocated only while no snapshot holds the
\* resize lock.
C10_RelocationNoGuard ==
    [][buf' # buf => \A t \in Threads : ~GuardHoldsResize(t)]_vars

\* C10: the buffer is relocated only while no snapshot holds the resize
\* lock, but for the write snapshot whose exclusive view makes the append.
C10_RelocationOnlyOwnGuard ==
    [][buf' # buf =>
          \A t \in Threads :
              GuardHoldsResize(t) => guard[t] = "w" /\ vg[t] /\ pc[t] = "idle" /\ pc' = pc]_vars

\* an append through an exclusive view has relocated the buffer
C10_Witness ==
    \E t \in Threads :
        /\ vg[t] /\ HoldsWrite(t)
        /\ buf >= 1 /\ cap = GrowCap(cap0)
        /\ Len(data) = cap0 + 1 /\ data[Len(data)] = Sentinel

(***************************************************************************)
(* Exclusive views                                                         *)
(***************************************************************************)
\* thread t holds an exclusive view and is not inside another upgrade()
ViewHeld(t) == vg[t] /\ pc[t] \notin {"up_plock", "up_wlock"}

\* C11 as stated: as long as its exclusive view is alive, a thread holds the
\* push lock and the resize lock exclusively, and no snapshot of another
\* thread holds the resize lock.
C11_ViewAlwaysHoldsBoth ==
    \A t \in Threads :
        vg[t] =>
            /\ HoldsPush(t) /\ HoldsWrite(t) /\ push_lock /\ rw_writer
            /\ \A u \in Threads \ {t} : ~GuardHoldsResize(u)

\* C11: while a thread holds an exclusive view and has not called upgrade()
\* again, both locks are taken and it alone holds them, no snapshot of
\* another thread holds the resize lock, no other thread is inside push
\* past its lock() or about to return from reader() or writer(), no call of
\* another thread returns, and only the view changes the vector.
C11_ViewHoldsBothLocks ==
    /\ [](\A t \in Threads :
            ViewHeld(t) =>
                /\ push_lock /\ rw_writer /\ rw_readers = 0
                /\ HoldsPush(t) /\ HoldsWrite(t)
                /\ \A u \in Threads \ {t} :
                      /\ ~HoldsPush(u) /\ ~HoldsRead(u) /\ ~HoldsWrite(u)
                      /\ pc[u] \notin PushPcs \cup {"r_len", "w_len", "rf_len", "rf_punlock"})
    /\ [][\A t \in Threads :
            ViewHeld(t) =>
                /\ \A u \in Threads \ {t} : pc'[u] = "idle" => pc[u] = "idle"
                /\ \A u \in Threads \ {t} : guard'[u] = guard[u] /\ vg'[u] = vg[u]
                /\ vecVars' # vecVars => pc' = pc /\ pc[t] = "idle"]_vars

\* a thread has written through its exclusive view while another thread
\* waits inside refresh() for the push lock
C11_Witness ==
    \E t, u \in Threads :
        /\ t # u /\ ViewHeld(t) /\ edited /\ Len(data) >= 1
        /\ guard[u] # "none" /\ pc[u] = "rf_plock"

\* the write snapshot of thread t has had its exclusive view dropped, and t is
\* in no call on it
SnapshotAfterView(t) == viewed[t] /\ ~vg[t] /\ pc[t] = "idle"

\* C12 as stated: from the drop of an exclusive view to the drop of the write
\* snapshot that created it, the snapshot's thread holds the resize lock
\* exclusively.
C12_ResizeHeldUntilSnapshotDrop ==
    \A t \in Threads : viewed[t] => rw_writer /\ HoldsWrite(t)

\* C12: the drop of an exclusive view frees the push lock and leaves the
\* resize lock held; while the write snapshot then rests between calls, the
\* resize lock is held exclusively, reader(), writer() and the reallocating
\* push of other threads cannot go on, a push that found len < cap can, and
\* the resize lock is freed only by the snapshot's drop or by its refresh()
\* or upgrade().
C12_ViewDropKeepsResizeLock ==
    /\ [](\A t \in Threads :
            SnapshotAfterView(t) =>
                /\ rw_writer /\ rw_readers = 0 /\ HoldsWrite(t)
                /\ \A u \in Threads \ {t} :
                      /\ ~ENABLED ReaderLock(u) /\ ~ENABLED WriterLock(u)
                      /\ ~ENABLED PushWLock(u)
                      /\ (pc[u] = "idle" /\ ~push_lock /\ nops < MaxOps) => ENABLED PushLock(u)
                      /\ pc[u] = "p_test" => ENABLED PushTest(u)
                      /\ pc[u] = "p_fast" => ENABLED PushFast(u)
                      /\ pc[u] = "p_flen" => ENABLED PushFastLen(u)
                      /\ pc[u] = "p_unlock" => ENABLED PushUnlock(u))
    /\ [][\A t \in Threads :
            /\ (vg[t] /\ ~vg'[t]) =>
                  /\ push_lock /\ ~push_lock'
                  /\ rw_writer /\ rw_writer' /\ rw_readers' = rw_readers
                  /\ HoldsWrite(t)' /\ ~HoldsPush(t)'
            /\ (SnapshotAfterView(t) /\ ~rw_writer') =>
                  \/ guard'[t] = "none"
                  \/ pc'[t] \in {"rf_plock", "up_plock"}]_vars

\* after the drop of the exclusive view of one thread, another thread's push
\* that found len < cap has stored its element while the write snapshot is
\* still held
C12_Witness ==
    \E t, u \in Threads :
        /\ t # u /\ SnapshotAfterView(t) /\ guard[t] = "w" /\ rw_writer
        /\ pc[u] = "p_unlock" /\ Len(data) >= 1 /\ data[Len(data)] = PushVal(u, npush[u])

(***************************************************************************)
(* One thread's round trip through writer(), upgrade() and reader() on a   *)
(* container it has pushed to                                              *)
(***************************************************************************)
RECURSIVE CapAfter(_, _)
\* the capacity after k pushes on a container built with_capacity(c)
CapAfter(c, k) ==
    IF k = 0 THEN c
    ELSE LET p == CapAfter(c, k - 1) IN IF k - 1 = p THEN GrowCap(p) ELSE p

RECURSIVE RelocsAfter(_, _)
\* the relocations k pushes make on a container built with_capacity(c)
RelocsAfter(c, k) ==
    IF k = 0 THEN 0
    ELSE RelocsAfter(c, k - 1) + (IF k - 1 = CapAfter(c, k - 1) THEN 1 ELSE 0)

\* with_capacity(c), then k pushes by thread 1, all returned
RtInit ==
    \E c \in 0..MaxSeqCap0 : \E k \in 1..MaxRtLen :
        /\ rw_writer = FALSE
        /\ rw_readers = 0
        /\ push_lock = FALSE
        /\ data = [i \in 1..k |-> PushVal(1, i)]
        /\ cap = CapAfter(c, k)
        /\ cap0 = c
        /\ buf = RelocsAfter(c, k)
        /\ pc = [t \in Threads |-> "idle"]
        /\ guard = [t \in Threads |-> "none"]
        /\ vg = [t \in Threads |-> FALSE]
        /\ end = [t \in Threads |-> 0]
        /\ plen = [t \in Threads |-> 0]
        /\ npush = [t \in Threads |-> IF t = 1 THEN k ELSE 0]
        /\ nops = 0
        /\ edited = FALSE
        /\ appended = [t \in Threads |-> FALSE]
        /\ viewed = [t \in Threads |-> FALSE]
        /\ waiting = [t \in Threads |-> {}]

\* Every state of RtInit is a state of SeqSpec: what k returned pushes of
\* thread 1 leave, with no guard taken.
RtInitReached ==
    (AllPushesReturned /\ ~edited /\ npush[1] >= 1) =>
        /\ data = [i \in 1..npush[1] |-> PushVal(1, i)]
        /\ cap = CapAfter(cap0, npush[1])
        /\ buf = RelocsAfter(cap0, npush[1])

\* { let mut w = writer(); w[0] = sentinel; { let mut v = w.upgrade();
\* v.push(sentinel); } } let r = reader();
RtNext ==
    \/ nops = 0 /\ WriterLock(1)
    \/ WriterLen(1)
    \/ nops = 1 /\ WriterSet(1, 1)
    \/ nops = 2 /\ UpgradeWUnlock(1)
    \/ UpgradePushLock(1)
    \/ UpgradeWLock(1)
    \/ nops = 3 /\ VgPush(1)
    \/ nops = 4 /\ DropVecGuard(1)
    \/ nops = 4 /\ DropWriter(1)
    \/ nops = 4 /\ ReaderLock(1)
    \/ ReaderLen(1)

RtSpec == RtInit /\ [][RtNext]_vars

\* C14: after the round trip both locks are free, and a read snapshot taken
\* then has end = old length + 1 over the sentinel at index 0, the elements
\* pushed before at the indices in between, and the appended element at
\* index end - 1.
C14_RoundTrip ==
    /\ (nops = 4 /\ guard[1] = "none") =>
          ~rw_writer /\ rw_readers = 0 /\ ~push_lock
    /\ (guard[1] = "r" /\ pc[1] = "idle") =>
          /\ ~rw_writer /\ rw_readers = 1 /\ ~push_lock
          /\ end[1] = npush[1] + 1 /\ Len(data) = end[1]
          /\ data[1] = Sentinel
          /\ data[end[1]] = Sentinel
          /\ \A i \in 2..npush[1] : data[i] = PushVal(1, i)

\* the round trip on a container of three elements is over
C14_Witness ==
    /\ guard[1] = "r" /\ pc[1] = "idle" /\ end[1] = 4 /\ nops = 5
    /\ data = <<Sentinel, PushVal(1, 2), PushVal(1, 3), Sentinel>>

(***************************************************************************)
(* Sequential scenarios                                                    *)
(***************************************************************************)
\* the first k values thread t pushed, in the order of its calls
Pushed(t, k) == [i \in 1..k |-> PushVal(t, i)]

\* C13: in a run of a single thread that writes through no guard, reader()
\* after the k-th push records end = k over a vector that holds the k
\* pushed values in order, the view of a held read snapshot stays those
\* values, pushes leave end alone, refresh() stores the number of pushes
\* made, and the first n pushes after with_capacity(n) neither wait for the
\* resize lock nor relocate.
C13_SequentialEnd ==
    /\ [](~edited =>
            /\ AllPushesReturned => data = Pushed(1, npush[1])
            /\ (guard[1] = "r" /\ pc[1] # "rf_len") =>
                  /\ end[1] <= Len(data) /\ end[1] <= npush[1]
                  /\ SubSeq(data, 1, end[1]) = Pushed(1, end[1])
            /\ (npush[1] <= cap0 /\ cap0 >= 1) =>
                  /\ buf = 0 /\ cap = cap0
                  /\ pc[1] \notin {"p_wlock", "p_realloc", "p_rlen", "p_wunlock"})
    /\ [][~edited =>
            /\ (pc[1] = "r_len" /\ pc'[1] = "idle") =>
                  /\ end'[1] = npush[1] /\ guard'[1] = "r"
                  /\ SubSeq(data', 1, end'[1]) = Pushed(1, npush[1])
            /\ (pc[1] \in PushPcs \/ pc'[1] \in PushPcs) => end' = end
            /\ (guard[1] = "r" /\ pc[1] = "rf_len" /\ pc'[1] = "rf_punlock") =>
                  /\ end'[1] = npush[1] /\ end'[1] = Len(data')
                  /\ SubSeq(data', 1, end'[1]) = Pushed(1, npush[1])]_vars

\* on a with_capacity(4) container, a read snapshot taken after two pushes
\* still has end = 2 after two more pushes, and its refresh() is about to
\* record end
C13_Witness ==
    /\ cap0 = 4 /\ cap = 4 /\ buf = 0 /\ ~edited
    /\ guard[1] = "r" /\ pc[1] = "rf_len" /\ end[1] = 2 /\ npush[1] = 4
    /\ data = Pushed(1, 4)

(***************************************************************************)
(* Lock order                                                              *)
(***************************************************************************)
\* C15: a thread that holds no guard can go through reader() whenever no
\* thread holds the resize lock exclusively, whoever holds the push lock,
\* and the steps of reader() leave the push lock alone.
C15_ReaderNeverWaitsForPush ==
    /\ [](\A t \in Threads :
            /\ (pc[t] = "idle" /\ guard[t] = "none" /\ nops < MaxOps /\ WriteHolders = {}) =>
                  ENABLED ReaderLock(t)
            /\ pc[t] = "r_len" => ENABLED ReaderLen(t))
    /\ [][\A t \in Threads :
            (pc'[t] # pc[t] /\ (pc[t] = "r_len" \/ pc'[t] = "r_len")) =>
                /\ push_lock' = push_lock /\ rw_writer' = rw_writer
                /\ pc[t] = "idle" => rw_readers' = rw_readers + 1
                /\ pc[t] = "r_len" => rw_readers' = rw_readers /\ guard'[t] = "r"]_vars

\* reader() has taken the resize lock while another thread, inside
\* upgrade(), holds the push lock and has not yet re-acquired the resize lock
C15_Witness ==
    \E t, u \in Threads :
        t # u /\ pc[t] = "r_len" /\ pc[u] = "up_wlock" /\ push_lock /\ rw_readers >= 1

\* thread t takes a step that moves it from position a to position b
Moves(t, a, b) == pc[t] = a /\ pc'[t] = b

\* the step takes, frees or keeps the resize lock in the mode of t's snapshot
TakesResize(t) ==
    IF guard[t] = "r"
      THEN ~rw_writer /\ rw_readers' = rw_readers + 1 /\ rw_writer' = rw_writer
      ELSE ~rw_writer /\ rw_readers = 0 /\ rw_writer' /\ rw_readers' = rw_readers

FreesResize(t) ==
    IF guard[t] = "r"
      THEN rw_readers' = rw_readers - 1 /\ rw_writer' = rw_writer
      ELSE rw_writer /\ ~rw_writer' /\ rw_readers' = rw_readers

KeepsResize == rw_writer' = rw_writer /\ rw_readers' = rw_readers

\* the order in which refresh(), upgrade() and push take and free the locks
LockOrderStep(t) ==
    /\ pc[t] = "rf_plock" => pc'[t] \in {"rf_plock", "rf_relock"}
    /\ pc[t] = "rf_relock" => pc'[t] \in {"rf_relock", "rf_len"}
    /\ pc[t] = "rf_len" => pc'[t] \in {"rf_len", "rf_punlock"}
    /\ pc[t] = "rf_punlock" => pc'[t] \in {"rf_punlock", "idle"}
    /\ pc[t] = "up_plock" => pc'[t] \in {"up_plock", "up_wlock"}
    /\ pc[t] = "up_wlock" => pc'[t] \in {"up_wlock", "idle"}
    /\ (Moves(t, "idle", "rf_plock") \/ Moves(t, "idle", "up_plock")) =>
          FreesResize(t) /\ push_lock' = push_lock
    /\ (Moves(t, "rf_plock", "rf_relock") \/ Moves(t, "up_plock", "up_wlock")) =>
          ~push_lock /\ push_lock' /\ KeepsResize
    /\ (Moves(t, "rf_relock", "rf_len") \/ Moves(t, "up_wlock", "idle")) =>
          push_lock /\ push_lock' /\ TakesResize(t)
    /\ Moves(t, "up_wlock", "idle") => vg'[t] /\ guard'[t] = "w"
    /\ Moves(t, "rf_len", "rf_punlock") =>
          push_lock' = push_lock /\ KeepsResize /\ end'[t] = Len(data)
    /\ Moves(t, "rf_punlock", "idle") =>
          push_lock /\ ~push_lock' /\ KeepsResize /\ guard'[t] = guard[t]
    /\ Moves(t, "idle", "p_test") => ~push_lock /\ push_lock' /\ KeepsResize
    /\ Moves(t, "p_wlock", "p_realloc") =>
          /\ push_lock /\ push_lock'
          /\ ~rw_writer /\ rw_readers = 0 /\ rw_writer'
    /\ Moves(t, "p_wunlock", "p_unlock") =>
          push_lock /\ push_lock' /\ rw_writer /\ ~rw_writer'
    /\ Moves(t, "p_unlock", "idle") => push_lock /\ ~push_lock' /\ KeepsResize

\* the lock variables agree with the positions of the threads
LocksMatchPositions ==
    /\ rw_writer = (WriteHolders # {})
    /\ rw_readers = Cardinality(ReadHolders)
    /\ push_lock = (PushHolders # {})

\* C16 as stated, last sentence: a thread that takes the push lock holds the
\* resize lock in no mode.
C16_PushLockNeverUnderResize ==
    [][\A t \in Threads :
          (pc'[t] # pc[t] /\ ~push_lock /\ push_lock') =>
              ~HoldsRead(t) /\ ~HoldsWrite(t)]_vars

\* C16: refresh() and upgrade() free the resize lock, then take the push
\* lock, then take the resize lock again in the snapshot's mode; refresh()
\* then records end and frees the push lock, upgrade() keeps it; push takes
\* the push lock first and frees the resize lock before it; and a thread
\* that takes the push lock holds the resize lock only if it is entering
\* push while it holds a snapshot.
C16_LockOrder ==
    /\ []LocksMatchPositions
    /\ [][\A t \in Threads :
            /\ LockOrderStep(t)
            /\ (pc'[t] # pc[t] /\ ~push_lock /\ push_lock') =>
                  \/ ~HoldsRead(t) /\ ~HoldsWrite(t)
                  \/ Moves(t, "idle", "p_test") /\ guard[t] # "none"]_vars

\* a push that waited to reallocate has the resize lock that the refresh()
\* of a write snapshot freed, while that refresh() waits for the push lock
C16_Witness ==
    \E t, u \in Threads :
        /\ t # u /\ guard[t] = "w" /\ pc[t] = "rf_plock"
        /\ pc[u] = "p_realloc" /\ rw_writer /\ push_lock

(***************************************************************************)
(* Pushes that wait for the resize lock                                    *)
(***************************************************************************)
\* the push e has returned
PushReturned(e) == npush[e.u] > e.k \/ pc[e.u] \notin PushPcs

\* the refresh() or upgrade() of thread t returns
CallReturns(t) == Moves(t, "rf_punlock", "idle") \/ Moves(t, "up_wlock", "idle")

\* the length of the view the call of thread t returns with: the whole
\* vector for upgrade(), [0, end) for refresh()
ReturnedLen(t) ==
    IF Moves(t, "up_wlock", "idle") THEN Len(data')
    ELSE IF end'[t] <= Len(data') THEN end'[t] ELSE Len(data')

\* C17 as stated: a push that waited for the resize lock when refresh() or
\* upgrade() was called has returned when the call returns, and its element
\* is in the view the call returns with.
C17_WaitingPushInView ==
    [][\A t \in Threads :
          CallReturns(t) =>
              \A e \in waiting[t] :
                  /\ PushReturned(e)
                  /\ ~e.gone /\ e.pos \in 1..ReturnedLen(t)]_vars

\* C17: a push that waited for the resize lock when refresh() or upgrade()
\* was called has stored its element and returned once the call holds the
\* push lock, so before it returns, and the index of its element is in the
\* view the call returns with unless an exclusive view has truncated the
\* vector below it in between.
C17_WaitingPushDone ==
    /\ [](\A t \in Threads :
            pc[t] \in {"rf_relock", "rf_len", "rf_punlock", "up_wlock"} =>
                \A e \in waiting[t] :
                    /\ PushReturned(e) /\ PushWritten(e.u, e.k)
                    /\ e.pos >= 1 /\ pc[e.u] \notin PushPcs
                    /\ e.gone \/ (e.pos <= Len(data) /\ data[e.pos] \in {PushVal(e.u, e.k), Sentinel}))
    /\ [][\A t \in Threads :
            CallReturns(t) =>
                \A e \in waiting[t] :
                    /\ PushReturned(e)
                    /\ e.gone \/ e.pos \in 1..ReturnedLen(t)]_vars

\* the refresh() of a write snapshot is about to return with a view whose
\* last element is that of a push that waited for the resize lock when
\* refresh() was called
C17_Witness ==
    \E t \in Threads :
        /\ pc[t] = "rf_punlock" /\ guard[t] = "w" /\ end[t] >= 1 /\ end[t] = Len(data)
        /\ \E e \in waiting[t] : ~e.gone /\ e.pos = end[t] /\ data[end[t]] = PushVal(e.u, e.k)

(***************************************************************************)
(* Termination                                                             *)
(***************************************************************************)
\* thread t is inside a call or holds a guard
Unfinished(t) == pc[t] # "idle" \/ guard[t] # "none"

LocksFree == ~rw_writer /\ rw_readers = 0 /\ ~push_lock

\* C18: with threads that keep to the rules, some unfinished thread always
\* has a step to take; and if every thread goes on whenever it can, every
\* call returns, and in the end every call has been made, every guard is
\* dropped and both locks are free.
C18_DisciplinedTermination ==
    /\ []((\E t \in Threads : Unfinished(t)) =>
             \E t \in Threads : Unfinished(t) /\ ENABLED DiscStep(t))
    /\ \A t \in Threads : [](pc[t] # "idle" => <>(pc[t] = "idle"))
    /\ <>[](LocksFree /\ nops = MaxOps /\ \A t \in Threads : ~Unfinished(t))

\* a push holds the push lock and waits for the resize lock that the read
\* snapshot of another thread holds, after the last call
C18_Witness ==
    \E t, u \in Threads :
        /\ t # u /\ pc[t] = "p_wlock" /\ guard[t] = "none"
        /\ guard[u] = "r" /\ pc[u] = "idle" /\ rw_readers = 1 /\ nops = MaxOps

(***************************************************************************)
(* The read of the length in refresh()                                     *)
(***************************************************************************)
\* C19 as stated: when refresh() reads the length, the refreshing thread
\* holds no lock.
C19_RefreshReadsLenUnlocked ==
    [][\A t \in Threads :
          RefreshStoresEnd(t) =>
              /\ ~(HoldsPush(t) /\ push_lock)
              /\ ~(HoldsRead(t) /\ rw_readers > 0)
              /\ ~(HoldsWrite(t) /\ rw_writer)]_vars

\* C19: when refresh() reads the length, the refreshing thread holds the
\* push lock and the resize lock in its snapshot's mode, no other thread is
\* inside push past its lock() or holds the resize lock exclusively, and
\* the length read is the length of the vector.
C19_RefreshReadsLenLocked ==
    [][\A t \in Threads :
          RefreshStoresEnd(t) =>
              /\ push_lock /\ HoldsPush(t)
              /\ IF guard[t] = "r" THEN rw_readers >= 1 /\ ~rw_writer /\ HoldsRead(t)
                                   ELSE rw_writer /\ rw_readers = 0 /\ HoldsWrite(t)
              /\ \A u \in Threads \ {t} :
                    pc[u] \notin PushPcs /\ ~HoldsPush(u) /\ ~HoldsWrite(u) /\ plen[u] = 0
              /\ end'[t] = Len(data) /\ data' = data /\ lockVars' = lockVars]_vars

\* the refresh() of a read snapshot is about to read a length that pushes
\* of another thread have raised since the snapshot recorded end
C19_Witness ==
    \E t, u \in Threads :
        /\ t # u /\ pc[t] = "rf_len" /\ guard[t] = "r" /\ push_lock /\ rw_readers >= 1
        /\ npush[u] >= 1 /\ Len(data) > end[t] /\ data[Len(data)] = PushVal(u, npush[u])

\* the read of the length in reader() and a push's store of the length are
\* both the next step of their threads
ReaderLenRace ==
    \E t, u \in Threads : pc[t] = "r_len" /\ pc[u] \in {"p_fast", "p_flen"}

(***************************************************************************)
(* push called by a thread that holds a snapshot                           *)
(***************************************************************************)
HoldsSnapshot(t) == guard[t] # "none" /\ ~vg[t]

\* t holds a snapshot and its push waits at line 51 for the resize lock
PushStuck(t) == HoldsSnapshot(t) /\ pc[t] = "p_wlock"

\* C20: a push called by a thread that holds a snapshot (not upgraded) and
\* finding length = capacity waits at line 51 holding the push lock, can
\* never take the resize lock its own snapshot holds, and stays there in
\* every later state; from then on no other thread passes the push_lock.lock()
\* of push, refresh or upgrade.  The same push finding length < capacity is
\* never blocked after its test, appends its element and returns with the
\* push lock released.
C20_PushUnderSnapshot ==
    /\ [](\A t \in Threads :
            PushStuck(t) =>
                /\ push_lock /\ HoldsPush(t)
                /\ IF guard[t] = "r" THEN rw_readers >= 1 ELSE rw_writer
                /\ ~ENABLED PushWLock(t)
                /\ \A u \in Threads \ {t} :
                      /\ ~ENABLED PushLock(u)
                      /\ ~ENABLED RefreshPushLock(u)
                      /\ ~ENABLED MutRefreshPushLock(u)
                      /\ ~ENABLED UpgradePushLock(u)
                      /\ pc[u] \in {"idle", "r_len", "w_len", "rf_plock", "up_plock"})
    /\ [](\A t \in Threads :
            HoldsSnapshot(t) /\ pc[t] \in {"p_fast", "p_flen", "p_unlock"} =>
                /\ ENABLED PushFast(t) \/ ENABLED PushFastLen(t) \/ ENABLED PushUnlock(t)
                /\ push_lock)
    /\ [][\A t \in Threads :
            /\ PushStuck(t) => PushStuck(t)' /\ push_lock'
            /\ PushStuck(t) =>
                  \A u \in Threads \ {t} :
                      /\ npush'[u] = npush[u]
                      /\ pc[u] \in {"rf_plock", "up_plock"} => pc'[u] = pc[u]
                      /\ pc'[u] \notin {"rf_relock", "up_wlock", "p_test"}
            /\ HoldsSnapshot(t) /\ pc[t] = "p_test" /\ pc'[t] # "p_test" =>
                  pc'[t] = IF Len(data) = cap THEN "p_wlock" ELSE "p_fast"
            /\ HoldsSnapshot(t) /\ pc[t] = "p_flen" /\ pc'[t] # "p_flen" =>
                  /\ pc'[t] = "p_unlock"
                  /\ data' = Append(data, PushVal(t, npush[t]))
            /\ HoldsSnapshot(t) /\ pc[t] = "p_unlock" /\ pc'[t] # "p_unlock" =>
                  pc'[t] = "idle" /\ ~push_lock' /\ HoldsSnapshot(t)']_vars

\* a thread whose earlier push under its read snapshot returned is stuck in
\* its next push at line 51, and the refresh of another thread's read
\* snapshot waits for the push lock
C20_Witness ==
    \E t, u \in Threads :
        /\ t # u /\ PushStuck(t) /\ guard[t] = "r" /\ Len(data) = cap
        /\ end[t] < Len(data) /\ npush[t] >= 2 /\ npush[u] = 0
        /\ pc[u] = "rf_plock" /\ guard[u] = "r"

====
